---- MODULE Spec2Model ----
(***************************************************************************)
(* getAiSuggestions (src/components/AISuggestionEngine.ts): a thin client  *)
(* that sends a prompt to the generative-language service, parses the      *)
(* text of the response as JSON and keeps the abbreviations that belong to *)
(* the remedies of the call.                                               *)
(*                                                                         *)
(* A text is a sequence of lexical tokens (strings); a JSON value is a     *)
(* tagged record whose field names differ per type.                        *)
(***************************************************************************)
EXTENDS Integers, Sequences, FiniteSets, TLC

(* ---------------------------- bounds ----------------------------------- *)

\* number of callers that may have an invocation in flight at once
MaxCalls == 2

\* total number of invocations in one behaviour
MaxInvocations == 2

\* longest "remedies" array the service answers with
MaxArr == 4

Callers == 1..MaxCalls

(* ---------------------------- JS values -------------------------------- *)

JUndefined == [t |-> "undefined"]
JNull == [t |-> "null"]
JBool(b) == [t |-> "boolean", b |-> b]
JNum(n) == [t |-> "number", n |-> n]
JStr(s) == [t |-> "string", s |-> s]
JArr(a) == [t |-> "array", a |-> a]
\* members: a sequence of [key, value] in textual order
JObj(m) == [t |-> "object", m |-> m]

Member(k, v) == [key |-> k, value |-> v]

\* ToBoolean, as used by `result && ...`
Truthy(v) ==
  CASE v.t \in {"undefined", "null"} -> FALSE
    [] v.t = "boolean" -> v.b
    [] v.t = "number" -> v.n # 0
    [] v.t = "string" -> v.s # ""
    [] OTHER -> TRUE

TypeOf(v) ==
  CASE v.t = "null" -> "object"
    [] v.t = "array" -> "object"
    [] OTHER -> v.t

IsArray(v) == v.t = "array"

\* v[key] for a value that is neither null nor undefined and a key that is
\* not an array index: the last member of that name of an object, undefined
\* for arrays and primitives
GetProperty(v, key) ==
  IF v.t = "object" /\ \E i \in 1..Len(v.m) : v.m[i].key = key
  THEN LET last == CHOOSE i \in 1..Len(v.m) :
                     /\ v.m[i].key = key
                     /\ \A j \in (i + 1)..Len(v.m) : v.m[j].key # key
       IN v.m[last].value
  ELSE JUndefined

(* ---------------------------- JSON text -------------------------------- *)

\* the strings that occur in string literals of a response
StringUniverse == {"ARN", "NUX-V", "BELL", "FOO", "remedies", "other", "not"}

Quote(s) == "\"" \o s \o "\""

IsStringLiteral(tk) == \E s \in StringUniverse : tk = Quote(s)

Unquote(tk) == CHOOSE s \in StringUniverse : tk = Quote(s)

NumberLiterals == {"42", "0"}

NumberValue(tk) == IF tk = "42" THEN 42 ELSE 0

NumberLiteral(n) == IF n = 42 THEN "42" ELSE "0"

\* white space of the JSON grammar
JSONWhiteSpace == {" ", "\n"}

\* white space removed by String.prototype.trim: a strict superset
StrWhiteSpace == {" ", "\n", "\\u00A0"}

RECURSIVE trim(_)
trim(text) ==
  IF text = <<>> THEN text
  ELSE IF Head(text) \in StrWhiteSpace THEN trim(Tail(text))
  ELSE IF text[Len(text)] \in StrWhiteSpace THEN trim(SubSeq(text, 1, Len(text) - 1))
  ELSE text

RECURSIVE SkipWhiteSpace(_, _)
SkipWhiteSpace(toks, i) ==
  IF i <= Len(toks) /\ toks[i] \in JSONWhiteSpace
  THEN SkipWhiteSpace(toks, i + 1)
  ELSE i

ParseFail(i) == [ok |-> FALSE, i |-> i]

ParseOk(v, i) == [ok |-> TRUE, v |-> v, i |-> i]

\* Then(x): x is evaluated once and Then is applied to its value
Bind(x, Then(_)) == CHOOSE r \in {Then(y) : y \in {x}} : TRUE

RECURSIVE ParseValue(_, _)
RECURSIVE ParseElements(_, _, _)
RECURSIVE ParseMembers(_, _, _)

\* one JSON value starting at or after position i0
ParseValue(toks, i0) ==
  LET At(i) ==
        IF i > Len(toks) THEN ParseFail(i)
        ELSE LET tk == toks[i] IN
          CASE tk = "null" -> ParseOk(JNull, i + 1)
            [] tk \in {"true", "false"} -> ParseOk(JBool(tk = "true"), i + 1)
            [] tk \in NumberLiterals -> ParseOk(JNum(NumberValue(tk)), i + 1)
            [] IsStringLiteral(tk) -> ParseOk(JStr(Unquote(tk)), i + 1)
            [] tk = "[" ->
                 LET j == SkipWhiteSpace(toks, i + 1) IN
                 IF j <= Len(toks) /\ toks[j] = "]"
                 THEN ParseOk(JArr(<<>>), j + 1)
                 ELSE ParseElements(toks, i + 1, <<>>)
            [] tk = "{" ->
                 LET j == SkipWhiteSpace(toks, i + 1) IN
                 IF j <= Len(toks) /\ toks[j] = "}"
                 THEN ParseOk(JObj(<<>>), j + 1)
                 ELSE ParseMembers(toks, i + 1, <<>>)
            [] OTHER -> ParseFail(i)
  IN Bind(SkipWhiteSpace(toks, i0), At)

\* value ("," value)* "]"
ParseElements(toks, i, acc) ==
  LET After(e) ==
        IF ~e.ok THEN e
        ELSE LET j == SkipWhiteSpace(toks, e.i) IN
          IF j > Len(toks) THEN ParseFail(j)
          ELSE IF toks[j] = "," THEN ParseElements(toks, j + 1, Append(acc, e.v))
          ELSE IF toks[j] = "]" THEN ParseOk(JArr(Append(acc, e.v)), j + 1)
          ELSE ParseFail(j)
  IN Bind(ParseValue(toks, i), After)

\* string ":" value ("," string ":" value)* "}"
ParseMembers(toks, i, acc) ==
  LET k == SkipWhiteSpace(toks, i) IN
  IF k > Len(toks) \/ ~IsStringLiteral(toks[k]) THEN ParseFail(k)
  ELSE LET c == SkipWhiteSpace(toks, k + 1) IN
    IF c > Len(toks) \/ toks[c] # ":" THEN ParseFail(c)
    ELSE LET After(e) ==
               IF ~e.ok THEN e
               ELSE LET j == SkipWhiteSpace(toks, e.i)
                        m == Append(acc, Member(Unquote(toks[k]), e.v))
                    IN
                 IF j > Len(toks) THEN ParseFail(j)
                 ELSE IF toks[j] = "," THEN ParseMembers(toks, j + 1, m)
                 ELSE IF toks[j] = "}" THEN ParseOk(JObj(m), j + 1)
                 ELSE ParseFail(j)
         IN Bind(ParseValue(toks, c + 1), After)

\* JSON.parse: one value, then only white space; a SyntaxError otherwise
JSONparse(text) ==
  LET End(p) ==
        IF p.ok /\ SkipWhiteSpace(text, p.i) > Len(text)
        THEN [ok |-> TRUE, v |-> p.v]
        ELSE [ok |-> FALSE]
  IN Bind(ParseValue(text, 1), End)

RECURSIVE Stringify(_)
RECURSIVE StringifyElements(_)
RECURSIVE StringifyMembers(_)

\* the text the service emits for a value
Stringify(v) ==
  CASE v.t = "null" -> <<"null">>
    [] v.t = "boolean" -> IF v.b THEN <<"true">> ELSE <<"false">>
    [] v.t = "number" -> <<NumberLiteral(v.n)>>
    [] v.t = "string" -> <<Quote(v.s)>>
    [] v.t = "array" -> <<"[">> \o StringifyElements(v.a) \o <<"]">>
    [] v.t = "object" -> <<"{">> \o StringifyMembers(v.m) \o <<"}">>

StringifyElements(a) ==
  IF a = <<>> THEN <<>>
  ELSE IF Len(a) = 1 THEN Stringify(a[1])
  ELSE Stringify(a[1]) \o <<",">> \o StringifyElements(Tail(a))

StringifyMembers(m) ==
  IF m = <<>> THEN <<>>
  ELSE IF Len(m) = 1 THEN <<Quote(m[1].key), ":">> \o Stringify(m[1].value)
  ELSE <<Quote(m[1].key), ":">> \o Stringify(m[1].value) \o <<",">>
         \o StringifyMembers(Tail(m))

(* ---------------------------- inputs ----------------------------------- *)

Remedy(name, abbreviation) == [name |-> name, abbreviation |-> abbreviation]

Arnica == Remedy("Arnica montana", "ARN")
NuxVomica == Remedy("Nux vomica", "NUX-V")
Belladonna == Remedy("Belladonna", "BELL")
Formica == Remedy("Formica rufa", "FOO")

\* the remedies arguments of an invocation
RemedyLists == {<<>>, <<Arnica, NuxVomica, Belladonna>>, <<Formica, Arnica>>}

\* the symptoms arguments of an invocation
SymptomTexts == {"throbbing headache", "bruises after a fall"}

\* the elements the service puts in a "remedies" array
Elems == {JStr("ARN"), JStr("FOO"), JNum(42), JStr("BELL")}

ExampleArray == <<JStr("ARN"), JStr("FOO"), JNum(42), JStr("BELL")>>

Arrays == UNION {[1..n -> Elems] : n \in 0..MaxArr}

RemediesObject(a) == JObj(<<Member("remedies", JArr(a))>>)

\* texts that parse to an object holding an array under "remedies"
ArrayTexts ==
  {Stringify(RemediesObject(a)) : a \in Arrays}
    \cup {<<" ", "\\u00A0">> \o Stringify(RemediesObject(ExampleArray)) \o <<"\n">>,
          <<"{", " ", Quote("remedies"), ":", "[", " ", Quote("BELL"), "]", "}">>,
          Stringify(JObj(<<Member("remedies", JStr("ARN")),
                           Member("remedies", JArr(<<JStr("NUX-V")>>))>>))}

\* texts that parse to something else
OtherShapeTexts ==
  {Stringify(JObj(<<Member("remedies", JStr("ARN"))>>)),
   Stringify(JObj(<<>>)),
   Stringify(JObj(<<Member("other", JArr(<<JStr("ARN")>>))>>)),
   Stringify(JObj(<<Member("remedies", JArr(<<JStr("ARN")>>)),
                    Member("remedies", JNull)>>)),
   Stringify(JNull),
   Stringify(JNum(42)),
   Stringify(JNum(0)),
   Stringify(JStr("ARN")),
   Stringify(JBool(TRUE)),
   Stringify(JArr(<<JStr("ARN")>>))}

\* texts that are not JSON
NotJsonTexts ==
  {<<"not", " ", "json">>,
   <<>>,
   <<"{", Quote("remedies"), ":", "[", Quote("ARN")>>,
   <<"{", Quote("remedies"), ":", "[", Quote("ARN"), ",", "]", "}">>,
   Stringify(RemediesObject(<<JStr("ARN")>>)) \o <<"not">>,
   <<"{", "\\u00A0", Quote("remedies"), ":", "[", "]", "}">>}

Texts == ArrayTexts \cup OtherShapeTexts \cup NotJsonTexts

\* values the rejected promise of the service call carries
ThrownValue(isError, name, message) ==
  [instanceofError |-> isError, name |-> name, message |-> message]

ServiceErrors ==
  {ThrownValue(TRUE, "ApiError", "401 API key not valid"),
   ThrownValue(TRUE, "ApiError", "429 resource exhausted"),
   ThrownValue(TRUE, "TypeError", "fetch failed"),
   ThrownValue(FALSE, "string", "request timed out")}

Pending == [state |-> "pending"]

Fulfilled(text) == [state |-> "fulfilled", hasText |-> TRUE, text |-> text]

\* a response whose text getter yields undefined
FulfilledNoText == [state |-> "fulfilled", hasText |-> FALSE]

Rejected(reason) == [state |-> "rejected", reason |-> reason]

\* the ways the promise of generateContent settles
Settlements ==
  {Fulfilled(t) : t \in Texts} \cup {FulfilledNoText}
    \cup {Rejected(e) : e \in ServiceErrors}

\* the arguments and the settlements of invocations that run side by side:
\* one representative of every way an invocation can go
SharedRemedyLists == {<<Arnica, NuxVomica, Belladonna>>, <<Formica, Arnica>>}

SharedSymptomTexts == {"throbbing headache"}

SharedSettlements ==
  {Fulfilled(Stringify(RemediesObject(<<JStr("ARN"), JStr("FOO"), JStr("BELL")>>))),
   Fulfilled(Stringify(JObj(<<Member("remedies", JStr("ARN"))>>))),
   Fulfilled(<<"not", " ", "json">>),
   FulfilledNoText,
   Rejected(ThrownValue(TRUE, "ApiError", "429 resource exhausted")),
   Rejected(ThrownValue(FALSE, "string", "request timed out"))}

(* ---------------------------- the code --------------------------------- *)

NotConfiguredError ==
  ThrownValue(TRUE, "Error",
    "Gemini API key is not configured. Please set VITE_API_KEY in a .env.local file and restart the server.")

FailedError ==
  ThrownValue(TRUE, "Error",
    "Failed to get suggestions from AI. It's possible the API key is invalid or the service is unavailable.")

UnknownError ==
  ThrownValue(TRUE, "Error", "An unknown error occurred while fetching AI suggestions.")

\* what the runtime throws for undefined.trim() and for JSON.parse of a bad text
TrimTypeError ==
  ThrownValue(TRUE, "TypeError", "Cannot read properties of undefined (reading 'trim')")

ParseSyntaxError == ThrownValue(TRUE, "SyntaxError", "Unexpected token in JSON")

Return(value) == [kind |-> "return", value |-> value]

Throw(error) == [kind |-> "throw", error |-> error]

NoOutcome == [kind |-> "none"]

RECURSIVE remedyListForPrompt(_)
remedyListForPrompt(remedies) ==
  IF remedies = <<>> THEN ""
  ELSE LET line == "- " \o remedies[1].name \o " (" \o remedies[1].abbreviation \o ")" IN
    IF Len(remedies) = 1 THEN line
    ELSE line \o "\n" \o remedyListForPrompt(Tail(remedies))

\* the template with its variable parts; the fixed sentences are left out
prompt(symptoms, remedies) ==
  "Symptoms: \"" \o symptoms \o "\" Available Remedies: " \o remedyListForPrompt(remedies)

\* the argument of ai.models.generateContent
Request(symptoms, remedies) ==
  [model |-> "gemini-2.5-flash",
   contents |-> prompt(symptoms, remedies),
   responseMimeType |-> "application/json",
   required |-> <<"remedies">>]

NoRequest == [model |-> "none"]

validAbbreviations(remedies) == {remedies[i].abbreviation : i \in 1..Len(remedies)}

\* Set.prototype.has on a set of strings
SetHas(set, v) == v.t = "string" /\ v.s \in set

\* variant: the membership test is left out
KeepAbbr_anyString(abbr, valid) == TypeOf(abbr) = "string"

\* the predicate of the filter
KeepAbbr(abbr, valid) == TypeOf(abbr) = "string" /\ SetHas(valid, abbr)

RECURSIVE filter(_, _)
filter(arr, valid) ==
  IF arr = <<>> THEN <<>>
  ELSE IF KeepAbbr(arr[1], valid) THEN <<arr[1]>> \o filter(Tail(arr), valid)
  ELSE filter(Tail(arr), valid)

\* variant: a missing text is read as the empty object (response.text ?? "{}")
TextOf_default(response) ==
  IF ~response.hasText THEN [kind |-> "text", jsonString |-> <<"{", "}">>]
  ELSE [kind |-> "text", jsonString |-> trim(response.text)]

\* response.text.trim(): a TypeError when the response carries no text
TextOf(response) ==
  IF ~response.hasText THEN Throw(TrimTypeError)
  ELSE [kind |-> "text", jsonString |-> trim(response.text)]

\* variant: a parsed value of another shape is rejected instead of ignored
Select_strictShape(result, remedies) ==
  IF Truthy(result) /\ IsArray(GetProperty(result, "remedies"))
  THEN Return(filter(GetProperty(result, "remedies").a, validAbbreviations(remedies)))
  ELSE Throw(ThrownValue(TRUE, "Error", "unexpected response shape"))

\* the test of the parsed value and the filter
Select(result, remedies) ==
  IF Truthy(result) /\ IsArray(GetProperty(result, "remedies"))
  THEN Return(filter(GetProperty(result, "remedies").a, validAbbreviations(remedies)))
  ELSE Return(<<>>)

\* the statements of the try block that follow the await
TryBody(remedies, response) ==
  IF response.state = "rejected" THEN Throw(response.reason)
  ELSE LET WithResult(parsed) ==
             IF ~parsed.ok THEN Throw(ParseSyntaxError)
             ELSE Select(parsed.v, remedies)
           WithText(trimmed) ==
             IF trimmed.kind = "throw" THEN trimmed
             ELSE Bind(JSONparse(trimmed.jsonString), WithResult)
       IN Bind(TextOf(response), WithText)

\* variant: the caught value is thrown again as it is
Catch_rethrow(completion) == completion

\* the catch clause
Catch(completion) ==
  IF completion.kind # "throw" THEN completion
  ELSE IF completion.error.instanceofError THEN Throw(FailedError)
  ELSE Throw(UnknownError)

(* ---------------------------- state ------------------------------------ *)

VARIABLES
  API_KEY,        \* process.env.API_KEY as read at module load
  ai,             \* the module-level service handle
  console,        \* the levels written to the console so far
  pc,             \* per caller: idle, await, settled, returned, thrown
  args,           \* per caller: the arguments of its invocation
  request,        \* per caller: the request handed to the service
  response,       \* per caller: how the promise of the service call settled
  outcome,        \* per caller: how the invocation completed
  invocations,    \* number of invocations so far
  networkCalls    \* number of generateContent calls so far

vars == <<API_KEY, ai, console, pc, args, request, response, outcome,
          invocations, networkCalls>>

EnvUndefined == "<undefined>"

\* the values process.env.API_KEY may have
Environment == {EnvUndefined, "", "AIza-key"}

KeyTruthy(k) == k \notin {EnvUndefined, ""}

NullHandle == [null |-> TRUE]

GoogleGenAI(apiKey) == [apiKey |-> apiKey]

NoArgs == [none |-> TRUE]

Args(symptoms, remedies) == [symptoms |-> symptoms, remedies |-> remedies]

Done == {"returned", "thrown"}

\* variant: the handle is created whether or not a key is present
Init_alwaysCreates ==
  /\ API_KEY \in Environment
  /\ ai = GoogleGenAI(API_KEY)
  /\ console = IF KeyTruthy(API_KEY) THEN {} ELSE {"warn"}
  /\ pc = [c \in Callers |-> "idle"]
  /\ args = [c \in Callers |-> NoArgs]
  /\ request = [c \in Callers |-> NoRequest]
  /\ response = [c \in Callers |-> Pending]
  /\ outcome = [c \in Callers |-> NoOutcome]
  /\ invocations = 0
  /\ networkCalls = 0

\* module load
Init ==
  /\ API_KEY \in Environment
  /\ ai = IF KeyTruthy(API_KEY) THEN GoogleGenAI(API_KEY) ELSE NullHandle
  /\ console = IF KeyTruthy(API_KEY) THEN {} ELSE {"warn"}
  /\ pc = [c \in Callers |-> "idle"]
  /\ args = [c \in Callers |-> NoArgs]
  /\ request = [c \in Callers |-> NoRequest]
  /\ response = [c \in Callers |-> Pending]
  /\ outcome = [c \in Callers |-> NoOutcome]
  /\ invocations = 0
  /\ networkCalls = 0

\* variant: the handle is tested inside the try block
getAiSuggestions_checkInTry(c, symptoms, remedies) ==
  /\ pc[c] = "idle"
  /\ invocations < MaxInvocations
  /\ invocations' = invocations + 1
  /\ args' = [args EXCEPT ![c] = Args(symptoms, remedies)]
  /\ IF ai = NullHandle
     THEN /\ pc' = [pc EXCEPT ![c] = "thrown"]
          /\ outcome' = [outcome EXCEPT ![c] = Catch(Throw(NotConfiguredError))]
          /\ console' = console \cup {"error"}
          /\ UNCHANGED <<request, networkCalls>>
     ELSE /\ pc' = [pc EXCEPT ![c] = "await"]
          /\ request' = [request EXCEPT ![c] = Request(symptoms, remedies)]
          /\ networkCalls' = networkCalls + 1
          /\ UNCHANGED <<outcome, console>>
  /\ UNCHANGED <<API_KEY, ai, response>>

\* a caller invokes getAiSuggestions: the code up to the await
getAiSuggestions(c, symptoms, remedies) ==
  /\ pc[c] = "idle"
  /\ invocations < MaxInvocations
  /\ invocations' = invocations + 1
  /\ args' = [args EXCEPT ![c] = Args(symptoms, remedies)]
  /\ IF ai = NullHandle
     THEN /\ pc' = [pc EXCEPT ![c] = "thrown"]
          /\ outcome' = [outcome EXCEPT ![c] = Throw(NotConfiguredError)]
          /\ UNCHANGED <<request, networkCalls>>
     ELSE /\ pc' = [pc EXCEPT ![c] = "await"]
          /\ request' = [request EXCEPT ![c] = Request(symptoms, remedies)]
          /\ networkCalls' = networkCalls + 1
          /\ UNCHANGED outcome
  /\ UNCHANGED <<API_KEY, ai, console, response>>

\* the promise of the service call settles
generateContent(c, settlement) ==
  /\ pc[c] = "await"
  /\ pc' = [pc EXCEPT ![c] = "settled"]
  /\ response' = [response EXCEPT ![c] = settlement]
  /\ UNCHANGED <<API_KEY, ai, console, args, request, outcome, invocations, networkCalls>>

RECURSIVE AllRemedies(_)
AllRemedies(n) == IF n = 0 THEN <<>> ELSE AllRemedies(n - 1) \o
                    (IF args[n] = NoArgs THEN <<>> ELSE args[n].remedies)

\* variant: the set of valid abbreviations is kept at module level and
\* every invocation adds to it
Resume_sharedSet(c) ==
  /\ pc[c] = "settled"
  /\ \E body \in {TryBody(AllRemedies(MaxCalls), response[c])} :
     \E completion \in {Catch(body)} :
        /\ outcome' = [outcome EXCEPT ![c] = completion]
        /\ pc' = [pc EXCEPT ![c] = IF completion.kind = "return" THEN "returned" ELSE "thrown"]
        /\ console' = IF body.kind = "throw" THEN console \cup {"error"} ELSE console
  /\ UNCHANGED <<API_KEY, ai, args, request, response, invocations, networkCalls>>

\* variant: a failed attempt is sent once more
Resume_retry(c) ==
  /\ pc[c] = "settled"
  /\ \E body \in {TryBody(args[c].remedies, response[c])} :
     \E completion \in {Catch(body)} :
        IF body.kind = "throw" /\ networkCalls = invocations
        THEN /\ pc' = [pc EXCEPT ![c] = "await"]
             /\ response' = [response EXCEPT ![c] = Pending]
             /\ networkCalls' = networkCalls + 1
             /\ console' = console \cup {"error"}
             /\ UNCHANGED outcome
        ELSE /\ outcome' = [outcome EXCEPT ![c] = completion]
             /\ pc' = [pc EXCEPT ![c] = IF completion.kind = "return" THEN "returned" ELSE "thrown"]
             /\ console' = IF body.kind = "throw" THEN console \cup {"error"} ELSE console
             /\ UNCHANGED <<response, networkCalls>>
  /\ UNCHANGED <<API_KEY, ai, args, request, invocations>>

\* variant: the await is raced against a local timer
Resume_localTimeout(c) ==
  /\ pc[c] \in {"await", "settled"}
  /\ \E body \in {IF pc[c] = "await"
                   THEN Throw(ThrownValue(TRUE, "Error", "timed out"))
                   ELSE TryBody(args[c].remedies, response[c])} :
     \E completion \in {Catch(body)} :
        /\ outcome' = [outcome EXCEPT ![c] = completion]
        /\ pc' = [pc EXCEPT ![c] = IF completion.kind = "return" THEN "returned" ELSE "thrown"]
        /\ console' = IF body.kind = "throw" THEN console \cup {"error"} ELSE console
  /\ UNCHANGED <<API_KEY, ai, args, request, response, invocations, networkCalls>>

\* the invocation resumes after the await and runs to completion
Resume(c) ==
  /\ pc[c] = "settled"
  /\ \E body \in {TryBody(args[c].remedies, response[c])} :
     \E completion \in {Catch(body)} :
        /\ outcome' = [outcome EXCEPT ![c] = completion]
        /\ pc' = [pc EXCEPT ![c] = IF completion.kind = "return" THEN "returned" ELSE "thrown"]
        /\ console' = IF body.kind = "throw" THEN console \cup {"error"} ELSE console
  /\ UNCHANGED <<API_KEY, ai, args, request, response, invocations, networkCalls>>

\* the caller takes the result; it may invoke again
Collect(c) ==
  /\ pc[c] \in Done
  /\ pc' = [pc EXCEPT ![c] = "idle"]
  /\ args' = [args EXCEPT ![c] = NoArgs]
  /\ request' = [request EXCEPT ![c] = NoRequest]
  /\ response' = [response EXCEPT ![c] = Pending]
  /\ outcome' = [outcome EXCEPT ![c] = NoOutcome]
  /\ UNCHANGED <<API_KEY, ai, console, invocations, networkCalls>>

\* several callers, invocations in flight side by side
Next ==
  \/ \E c \in Callers, s \in SharedSymptomTexts, r \in SharedRemedyLists :
       getAiSuggestions(c, s, r)
  \/ \E c \in Callers, s \in SharedSettlements : generateContent(c, s)
  \/ \E c \in Callers : Resume(c)
  \/ \E c \in Callers : Collect(c)

Spec == Init /\ [][Next]_vars

\* the event loop runs every continuation whose promise has settled; the
\* service is under no obligation to answer
FairSpec == Spec /\ \A c \in Callers : WF_vars(Resume(c))

\* one caller, one invocation after the other, every argument and every
\* settlement
CallNext ==
  \/ \E s \in SymptomTexts, r \in RemedyLists : getAiSuggestions(1, s, r)
  \/ \E s \in Settlements : generateContent(1, s)
  \/ Resume(1)
  \/ Collect(1)

CallSpec == Init /\ [][CallNext]_vars

TypeOK ==
  /\ API_KEY \in Environment
  /\ pc \in [Callers -> {"idle", "await", "settled", "returned", "thrown"}]
  /\ invocations \in 0..MaxInvocations
  /\ networkCalls \in 0..MaxInvocations
  /\ console \subseteq {"warn", "error"}

(* ---------------------------- claims ----------------------------------- *)

\* caller c has completed an invocation whose response carried a text
CompletedWithText(c) ==
  /\ pc[c] \in Done
  /\ response[c].state = "fulfilled"
  /\ response[c].hasText

Parsed(c) == JSONparse(trim(response[c].text))

\* the values stored under "remedies", in textual order
RemediesValues(v) ==
  LET IsRemedies(m) == m.key = "remedies"
  IN SelectSeq(v.m, IsRemedies)

\* v is an object whose "remedies" value is an array
HoldsRemediesArray(v) ==
  /\ v.t = "object"
  /\ RemediesValues(v) # <<>>
  /\ RemediesValues(v)[Len(RemediesValues(v))].value.t = "array"

RemediesArrayOf(v) == RemediesValues(v)[Len(RemediesValues(v))].value.a

OwnAbbreviations(c) ==
  {JStr(args[c].remedies[i].abbreviation) : i \in 1..Len(args[c].remedies)}

\* C1: when the text of the response parses to an object whose "remedies"
\* value is an array, the invocation returns exactly the elements of that
\* array that are strings equal to an abbreviation of the remedies of the
\* same call, in the order of the array.
C1_FilteredSubsequence ==
  \A c \in Callers :
    CompletedWithText(c) /\ Parsed(c).ok /\ HoldsRemediesArray(Parsed(c).v) =>
      LET Own(e) == e \in OwnAbbreviations(c)
      IN outcome[c] = Return(SelectSeq(RemediesArrayOf(Parsed(c).v), Own))

C1_Witness ==
  \E c \in Callers :
    /\ pc[c] = "returned"
    /\ args[c].remedies = <<Arnica, NuxVomica, Belladonna>>
    /\ response[c] = Fulfilled(Stringify(RemediesObject(ExampleArray)))
    /\ outcome[c] = Return(<<JStr("ARN"), JStr("BELL")>>)

\* C2: when the text of the response is not valid JSON, the invocation
\* returns the empty list and throws nothing.
C2_NotJsonYieldsEmpty ==
  \A c \in Callers :
    CompletedWithText(c) /\ ~Parsed(c).ok => outcome[c] = Return(<<>>)

\* C3: while the handle is absent no request is ever sent, and every
\* invocation fails with the configuration error itself.
C3_NotConfigured ==
  ai = NullHandle =>
    /\ networkCalls = 0
    /\ \A c \in Callers :
         /\ pc[c] \in {"idle", "thrown"}
         /\ request[c] = NoRequest
         /\ pc[c] = "thrown" => outcome[c] = Throw(NotConfiguredError)

C3_Witness ==
  /\ ai = NullHandle
  /\ invocations = 2
  /\ \E c \in Callers : pc[c] = "thrown" /\ args[c].remedies # <<>>

\* C4: when the service call rejects, the invocation throws one of the two
\* generic errors, never the rejection value, and returns no list.
C4_ServiceErrorsWrapped ==
  \A c \in Callers :
    pc[c] \in Done /\ response[c].state = "rejected" =>
      /\ outcome[c].kind = "throw"
      /\ outcome[c].error \in {FailedError, UnknownError}
      /\ outcome[c].error # response[c].reason

C4_Witness ==
  \E c \in Callers :
    /\ pc[c] = "thrown"
    /\ response[c].state = "rejected"
    /\ ~response[c].reason.instanceofError
    /\ outcome[c] = Throw(UnknownError)

\* C5: when the text parses as JSON but not to an object holding an array
\* under "remedies", the invocation returns the empty list and throws nothing.
C5_OtherShapesYieldEmpty ==
  \A c \in Callers :
    CompletedWithText(c) /\ Parsed(c).ok /\ ~HoldsRemediesArray(Parsed(c).v) =>
      outcome[c] = Return(<<>>)

C5_Witness ==
  \E c \in Callers :
    /\ pc[c] = "returned"
    /\ response[c] = Fulfilled(<<"{", Quote("remedies"), ":", Quote("ARN"), "}">>)
    /\ outcome[c] = Return(<<>>)

\* C6: with a handle, the number of requests sent equals the number of
\* invocations, and a request is sent only by the start of an invocation,
\* one at a time.
C6_OneCallPerInvocation ==
  /\ [](ai # NullHandle => networkCalls = invocations)
  /\ [][networkCalls' # networkCalls =>
          /\ networkCalls' = networkCalls + 1
          /\ \E c \in Callers : pc[c] = "idle" /\ pc'[c] = "await"]_vars

C6_Witness ==
  /\ ai # NullHandle
  /\ invocations = 2
  /\ networkCalls = 2
  /\ \A c \in Callers : pc[c] \in Done \cup {"idle"}
  /\ \E c \in Callers : pc[c] = "thrown"

\* the state that belongs to caller c
Slot(c) == <<pc[c], args[c], request[c], response[c], outcome[c]>>

\* C7: invocations in flight together are independent: a returned list
\* holds abbreviations of the call's own remedies only, two completed calls
\* with the same remedies and the same response have the same outcome, and
\* a step of one call changes neither the state of another call nor the handle.
C7_Independent ==
  /\ [](\A c \in Callers : pc[c] = "returned" =>
          \A i \in 1..Len(outcome[c].value) :
            outcome[c].value[i] \in OwnAbbreviations(c))
  /\ [](\A c, d \in Callers :
          /\ pc[c] \in Done /\ pc[d] \in Done
          /\ args[c].remedies = args[d].remedies
          /\ response[c] = response[d]
          => outcome[c] = outcome[d])
  /\ [][\A c \in Callers : Slot(c)' # Slot(c) =>
          /\ ai' = ai
          /\ \A d \in Callers \ {c} : Slot(d)' = Slot(d)]_vars

C7_Witness ==
  \E c, d \in Callers :
    /\ pc[c] = "returned" /\ pc[d] = "returned"
    /\ args[c].remedies # args[d].remedies
    /\ response[c] = response[d]
    /\ outcome[c] # outcome[d]
    /\ outcome[c].value # <<>> /\ outcome[d].value # <<>>

\* C8: the handle is present exactly when a key was present at module
\* load, and no step changes it.
C8_HandleFixed ==
  /\ [](ai # NullHandle <=> KeyTruthy(API_KEY))
  /\ [][ai' = ai /\ API_KEY' = API_KEY]_vars

C8_Witness ==
  /\ ai # NullHandle
  /\ \E c, d \in Callers : pc[c] = "thrown" /\ pc[d] = "returned"

\* C9: an invocation with a handle completes only after its service call
\* has settled; while the call is unsettled the invocation stays pending;
\* once the call has settled the invocation completes, and its outcome
\* does not change afterwards.
C9_NoLocalTimeout ==
  /\ [](\A c \in Callers : pc[c] \in Done /\ ai # NullHandle =>
          response[c].state # "pending")
  /\ [][\A c \in Callers : pc[c] = "await" /\ response'[c].state = "pending" =>
          pc'[c] = "await"]_vars
  /\ \A c \in Callers : (pc[c] = "settled") ~> (pc[c] \in Done)
  /\ [][\A c \in Callers : pc[c] \in Done /\ pc'[c] \in Done =>
          outcome'[c] = outcome[c]]_vars

C9_Witness ==
  \E c, d \in Callers :
    /\ ai # NullHandle
    /\ pc[c] \in Done
    /\ response[c].state # "pending"
    /\ pc[d] = "await"

\* C10: when the response carries no text, the invocation throws the
\* generic service-call-failed error and returns no list.
C10_NoTextIsServiceError ==
  \A c \in Callers :
    pc[c] \in Done /\ response[c] = FulfilledNoText => outcome[c] = Throw(FailedError)

C10_Witness ==
  \E c \in Callers :
    /\ pc[c] = "thrown"
    /\ response[c] = FulfilledNoText
    /\ "error" \in console

====
